---- MODULE Spec2Model ----
(***************************************************************************)
(* Activity log (src/new.py): class ActivityLog keeps a list of activity   *)
(* dictionaries in memory and mirrors it into a JSON file.                 *)
(*                                                                         *)
(* A Python dict is a function from its keys (strings) to values, a list   *)
(* is a sequence.  The file is a record [kind, text]: kind "missing" (no   *)
(* such file), "garbage" (content json.load rejects) or "json" (a JSON     *)
(* array, text its objects as key -> token functions).                     *)
(***************************************************************************)
EXTENDS Naturals, Sequences, FiniteSets, TLC

\* ------------------------------------------------------------------ bounds
\* Number of add_activity calls in one run.
MaxAdds == 3

\* ------------------------------------------------------------- input sets
\* Python's None, and the marker of an argument left out of a call.
None == "<None>"
Omitted == "<omitted>"

Descriptions == {"read", "write"}
\* Categories a caller passes; leaving the argument out stores "general".
Categories == {""}
\* Strings datetime.now().isoformat() can return.
Times == {"2026-01-01T09:00:00"}
\* Ids a caller may pass: every id add can assign, and one that never exists.
Ids == 1..(MaxAdds + 1)

VARIABLES
    activities,   \* self.activities
    activities2,  \* self.activities of a second ActivityLog on the same file
    file,         \* the content of self.filename
    last,         \* the last call: [who, op, arg, ret, len, done]: the object
                  \* called (1 or 2), the method, its argument, the value
                  \* returned, and len(self.activities) and the number of
                  \* completed activities as the call began
    deleted,      \* history: ids of the records delete_activity has removed
    nadd          \* history: number of add_activity calls so far

vars == <<activities, activities2, file, last, deleted, nadd>>

\* ---------------------------------------------------------------- helpers
\* dict.get(key, default)
Get(a, k, default) == IF k \in DOMAIN a THEN a[k] ELSE default

\* Python truthiness of an Optional[str]: None and "" are falsy.
Truthy(s) == s # None /\ s # ""

\* Truthiness of a.get("completed"): a missing key gives None, which is falsy.
IsCompleted(a) == "completed" \in DOMAIN a /\ a["completed"] = TRUE

\* ------------------------------------------------------------------- JSON
\* json.dump of one value: an int becomes a number token, a bool the literal
\* true/false, a str a string token.  The value's Python type is fixed by the
\* key that holds it (lines 50-56, 85-86).
DumpValue(k, v) ==
    CASE k = "id" -> [num |-> v]
      [] k = "completed" -> [lit |-> IF v THEN "true" ELSE "false"]
      [] OTHER -> [str |-> v]

DumpObject(a) == [k \in DOMAIN a |-> DumpValue(k, a[k])]

\* json.load of one token, by the token's own shape.
LoadValue(j) ==
    IF "num" \in DOMAIN j THEN j.num
    ELSE IF "lit" \in DOMAIN j THEN j.lit = "true"
    ELSE j.str

LoadObject(o) == [k \in DOMAIN o |-> LoadValue(o[k])]

\* save_activities: overwrite the file with the dump of the whole list.
SaveActivities(acts) ==
    [kind |-> "json", text |-> [i \in 1..Len(acts) |-> DumpObject(acts[i])]]

\* load_activities: FileNotFoundError and JSONDecodeError both give [].
LoadActivities(f) ==
    IF f.kind = "missing" THEN <<>>
    ELSE IF f.kind = "garbage" THEN <<>>
    ELSE [i \in 1..Len(f.text) |-> LoadObject(f.text[i])]

\* ----------------------------------------------------------- add_activity
\* Each handler is an operator from the object's state (the list and the file)
\* and the call's arguments to [acts, file, ret]: the list and the file after
\* the call and the value returned.

\* Mutant: the id is the list's length, not the length plus one.
AddActivityZeroBased(acts, f, description, category, now) ==
    LET activity == [id |-> Len(acts),
                     description |-> description,
                     category |-> IF category = Omitted THEN "general" ELSE category,
                     timestamp |-> now,
                     completed |-> FALSE]
        new == Append(acts, activity)
    IN [acts |-> new, file |-> SaveActivities(new), ret |-> activity]

RECURSIVE MaxId(_, _)
MaxId(acts, i) ==
    IF i > Len(acts) THEN 0
    ELSE LET m == MaxId(acts, i + 1)
         IN IF acts[i]["id"] > m THEN acts[i]["id"] ELSE m

\* Mutant: the id is one more than the largest id in the list.
AddActivityMaxPlusOne(acts, f, description, category, now) ==
    LET activity == [id |-> MaxId(acts, 1) + 1,
                     description |-> description,
                     category |-> IF category = Omitted THEN "general" ELSE category,
                     timestamp |-> now,
                     completed |-> FALSE]
        new == Append(acts, activity)
    IN [acts |-> new, file |-> SaveActivities(new), ret |-> activity]

\* Mutant: the file is read again before the append, so what another store
\* saved is kept.
AddActivityReload(acts, f, description, category, now) ==
    LET current == IF f.kind = "json" THEN LoadActivities(f) ELSE acts
        activity == [id |-> Len(current) + 1,
                     description |-> description,
                     category |-> IF category = Omitted THEN "general" ELSE category,
                     timestamp |-> now,
                     completed |-> FALSE]
        new == Append(current, activity)
    IN [acts |-> new, file |-> SaveActivities(new), ret |-> activity]

AddActivity(acts, f, description, category, now) ==
    LET activity == [id |-> Len(acts) + 1,
                     description |-> description,
                     category |-> IF category = Omitted THEN "general" ELSE category,
                     timestamp |-> now,
                     completed |-> FALSE]
        new == Append(acts, activity)
    IN [acts |-> new, file |-> SaveActivities(new), ret |-> activity]

\* -------------------------------------------------------- list_activities
ListActivities(acts, category) ==
    IF Truthy(category)
    THEN SelectSeq(acts, LAMBDA a : Get(a, "category", None) = category)
    ELSE acts

\* ------------------------------------------------------ complete_activity
\* The for loop of lines 83-88: the index of the first activity whose id is
\* activity_id, 0 when the loop runs to its end.
RECURSIVE FirstMatch(_, _, _)
FirstMatch(acts, i, activity_id) ==
    IF i > Len(acts) THEN 0
    ELSE IF Get(acts[i], "id", None) = activity_id THEN i
    ELSE FirstMatch(acts, i + 1, activity_id)

\* Mutant: completed_at is not written.
MarkCompletedFlagOnly(a, now) == [a EXCEPT !["completed"] = TRUE]

\* Mutant: the flag is toggled instead of set.
MarkCompletedToggle(a, now) ==
    [k \in DOMAIN a \cup {"completed_at"} |->
        IF k = "completed" THEN ~a["completed"]
        ELSE IF k = "completed_at" THEN now
        ELSE a[k]]

\* activity["completed"] = True; activity["completed_at"] = now
MarkCompleted(a, now) ==
    [k \in DOMAIN a \cup {"completed_at"} |->
        IF k = "completed" THEN TRUE
        ELSE IF k = "completed_at" THEN now
        ELSE a[k]]

\* Mutant: the loop does not stop at the first match.
CompleteActivityAll(acts, f, activity_id, now) ==
    LET k == FirstMatch(acts, 1, activity_id)
        new == [i \in 1..Len(acts) |->
                   IF Get(acts[i], "id", None) = activity_id
                   THEN MarkCompleted(acts[i], now) ELSE acts[i]]
    IN IF k = 0
       THEN [acts |-> acts, file |-> f, ret |-> FALSE]
       ELSE [acts |-> new, file |-> SaveActivities(new), ret |-> TRUE]

\* Mutant: the call to save_activities is missing.
CompleteActivityNoSave(acts, f, activity_id, now) ==
    LET k == FirstMatch(acts, 1, activity_id)
    IN IF k = 0
       THEN [acts |-> acts, file |-> f, ret |-> FALSE]
       ELSE [acts |-> [acts EXCEPT ![k] = MarkCompleted(acts[k], now)],
             file |-> f, ret |-> TRUE]

CompleteActivity(acts, f, activity_id, now) ==
    LET k == FirstMatch(acts, 1, activity_id)
        new == [acts EXCEPT ![k] = MarkCompleted(acts[k], now)]
    IN IF k = 0
       THEN [acts |-> acts, file |-> f, ret |-> FALSE]
       ELSE [acts |-> new, file |-> SaveActivities(new), ret |-> TRUE]

\* -------------------------------------------------------- delete_activity
\* Mutant: the length test is <= and so always passes.
DeleteActivityAlwaysTrue(acts, f, activity_id) ==
    LET new == SelectSeq(acts, LAMBDA a : Get(a, "id", None) # activity_id)
    IN IF Len(new) <= Len(acts)
       THEN [acts |-> new, file |-> SaveActivities(new), ret |-> TRUE]
       ELSE [acts |-> new, file |-> f, ret |-> FALSE]

\* Mutant: only the first match is removed (list.remove).
DeleteActivityFirstOnly(acts, f, activity_id) ==
    LET k == FirstMatch(acts, 1, activity_id)
        new == IF k = 0 THEN acts
               ELSE SubSeq(acts, 1, k - 1) \o SubSeq(acts, k + 1, Len(acts))
    IN IF Len(new) < Len(acts)
       THEN [acts |-> new, file |-> SaveActivities(new), ret |-> TRUE]
       ELSE [acts |-> new, file |-> f, ret |-> FALSE]

DeleteActivity(acts, f, activity_id) ==
    LET original_length == Len(acts)
        new == SelectSeq(acts, LAMBDA a : Get(a, "id", None) # activity_id)
    IN IF Len(new) < original_length
       THEN [acts |-> new, file |-> SaveActivities(new), ret |-> TRUE]
       ELSE [acts |-> new, file |-> f, ret |-> FALSE]

\* --------------------------------------------------------- get_statistics
\* sum(1 for a in self.activities if a.get("completed"))
RECURSIVE CountCompleted(_, _)
CountCompleted(acts, i) ==
    IF i > Len(acts) THEN 0
    ELSE (IF IsCompleted(acts[i]) THEN 1 ELSE 0) + CountCompleted(acts, i + 1)

\* Mutant: a category's entry is set to 1 instead of being incremented.
RECURSIVE CountCategoriesNoIncrement(_, _, _)
CountCategoriesNoIncrement(acts, i, categories) ==
    IF i > Len(acts) THEN categories
    ELSE LET cat == Get(acts[i], "category", "general")
         IN CountCategoriesNoIncrement(acts, i + 1,
                [c \in DOMAIN categories \cup {cat} |->
                    IF c = cat THEN 1 ELSE categories[c]])

\* The loop of lines 117-119, from index i on, over the dict built so far.
RECURSIVE CountCategories(_, _, _)
CountCategories(acts, i, categories) ==
    IF i > Len(acts) THEN categories
    ELSE LET cat == Get(acts[i], "category", "general")
         IN CountCategories(acts, i + 1,
                [c \in DOMAIN categories \cup {cat} |->
                    IF c = cat THEN Get(categories, cat, 0) + 1
                    ELSE categories[c]])

EmptyDict == [c \in {} |-> 0]

GetStatistics(acts) ==
    LET total == Len(acts)
        completed == CountCompleted(acts, 1)
    IN [total |-> total,
        completed |-> completed,
        pending |-> total - completed,
        categories |-> CountCategories(acts, 1, EmptyDict)]

\* ---------------------------------------------------------- state machine
\* ActivityLog(filename) on a file that does not exist yet (the tests'
\* tmp_path fixture) or that holds no JSON: __init__ calls load_activities.
Init ==
    /\ file \in {[kind |-> "missing", text |-> <<>>],
                 [kind |-> "garbage", text |-> <<>>]}
    /\ activities = LoadActivities(file)
    /\ activities2 = <<>>
    /\ last = [who |-> 1, op |-> "init", arg |-> None, ret |-> None, len |-> 0,
               done |-> 0]
    /\ deleted = {}
    /\ nadd = 0

Add(description, category, now) ==
    /\ nadd < MaxAdds
    /\ LET r == AddActivity(activities, file, description, category, now)
       IN /\ activities' = r.acts
          /\ file' = r.file
          /\ last' = [who |-> 1, op |-> "add", arg |-> <<description, category>>,
                      ret |-> r.ret, len |-> Len(activities),
                done |-> CountCompleted(activities, 1)]
    /\ nadd' = nadd + 1
    /\ UNCHANGED <<activities2, deleted>>

\* Mutant: the filtered list replaces self.activities.
ListInPlace(category) ==
    /\ activities' = ListActivities(activities, category)
    /\ last' = [who |-> 1, op |-> "list", arg |-> category,
                ret |-> ListActivities(activities, category),
                len |-> Len(activities),
                done |-> CountCompleted(activities, 1)]
    /\ UNCHANGED <<activities2, file, deleted, nadd>>

List(category) ==
    /\ last' = [who |-> 1, op |-> "list", arg |-> category,
                ret |-> ListActivities(activities, category),
                len |-> Len(activities),
                done |-> CountCompleted(activities, 1)]
    /\ UNCHANGED <<activities, activities2, file, deleted, nadd>>

Complete(activity_id, now) ==
    /\ LET r == CompleteActivity(activities, file, activity_id, now)
       IN /\ activities' = r.acts
          /\ file' = r.file
          /\ last' = [who |-> 1, op |-> "complete", arg |-> activity_id,
                      ret |-> r.ret, len |-> Len(activities),
                done |-> CountCompleted(activities, 1)]
    /\ UNCHANGED <<activities2, deleted, nadd>>

Delete(activity_id) ==
    /\ LET r == DeleteActivity(activities, file, activity_id)
       IN /\ activities' = r.acts
          /\ file' = r.file
          /\ last' = [who |-> 1, op |-> "delete", arg |-> activity_id,
                      ret |-> r.ret, len |-> Len(activities),
                done |-> CountCompleted(activities, 1)]
          /\ deleted' = IF Len(r.acts) < Len(activities)
                        THEN deleted \cup {activity_id} ELSE deleted
    /\ UNCHANGED <<activities2, nadd>>

Statistics ==
    /\ last' = [who |-> 1, op |-> "stats", arg |-> None,
                ret |-> GetStatistics(activities), len |-> Len(activities),
                done |-> CountCompleted(activities, 1)]
    /\ UNCHANGED <<activities, activities2, file, deleted, nadd>>

Next ==
    \/ \E d \in Descriptions, c \in Categories \cup {Omitted}, t \in Times : Add(d, c, t)
    \/ \E c \in Categories \cup {"general", None} : List(c)
    \/ \E i \in Ids, t \in Times : Complete(i, t)
    \/ \E i \in Ids : Delete(i)
    \/ Statistics

Spec == Init /\ [][Next]_vars

\* ------------------------------------------- construction on any file state
\* ActivityLog(filename): __init__ sets the empty list and calls
\* load_activities, which only reads the file.  ret is None: both exceptions
\* are caught and nothing is raised.

\* Mutant: a missing file is created, holding the empty list.
InitActivityLogCreate(f) ==
    IF f.kind = "missing"
    THEN [acts |-> <<>>, file |-> SaveActivities(<<>>), ret |-> None]
    ELSE [acts |-> LoadActivities(f), file |-> f, ret |-> None]

InitActivityLog(f) ==
    [acts |-> LoadActivities(f), file |-> f, ret |-> None]

\* The program drops its store and constructs a new one on the same file
\* (log2 of test_persistence).
Reopen ==
    /\ LET r == InitActivityLog(file)
       IN /\ activities' = r.acts
          /\ file' = r.file
          /\ last' = [who |-> 1, op |-> "load", arg |-> None, ret |-> r.ret,
                      len |-> Len(activities),
                done |-> CountCompleted(activities, 1)]
    /\ UNCHANGED <<activities2, deleted, nadd>>

\* test_file.unlink() of the tests: the file is removed behind the store.
Unlink ==
    /\ file.kind # "missing"
    /\ file' = [kind |-> "missing", text |-> <<>>]
    /\ last' = [who |-> 0, op |-> "unlink", arg |-> None, ret |-> None,
                len |-> Len(activities),
                done |-> CountCompleted(activities, 1)]
    /\ UNCHANGED <<activities, activities2, deleted, nadd>>

\* test_file.write_text("not valid json{") of test_load_corrupted_file.
Corrupt ==
    /\ file.kind # "garbage"
    /\ file' = [kind |-> "garbage", text |-> <<>>]
    /\ last' = [who |-> 0, op |-> "corrupt", arg |-> None, ret |-> None,
                len |-> Len(activities),
                done |-> CountCompleted(activities, 1)]
    /\ UNCHANGED <<activities, activities2, deleted, nadd>>

NextLoad ==
    \/ \E d \in Descriptions, c \in Categories \cup {Omitted}, t \in Times : Add(d, c, t)
    \/ \E i \in Ids, t \in Times : Complete(i, t)
    \/ \E i \in Ids : Delete(i)
    \/ Reopen
    \/ Unlink
    \/ Corrupt

SpecLoad == Init /\ [][NextLoad]_vars

\* ------------------------------------------------ two stores on one file
\* A second ActivityLog constructed on the same file while it was still
\* missing or undecodable (activities2 = [] from Init on).  Its methods are
\* the same code, run on its own list and the shared file.
Add2(description, category, now) ==
    /\ LET r == AddActivity(activities2, file, description, category, now)
       IN /\ activities2' = r.acts
          /\ file' = r.file
          /\ last' = [who |-> 2, op |-> "add", arg |-> <<description, category>>,
                      ret |-> r.ret, len |-> Len(activities2),
                      done |-> CountCompleted(activities2, 1)]
    /\ nadd' = nadd + 1
    /\ UNCHANGED <<activities, deleted>>

Complete2(activity_id, now) ==
    /\ LET r == CompleteActivity(activities2, file, activity_id, now)
       IN /\ activities2' = r.acts
          /\ file' = r.file
          /\ last' = [who |-> 2, op |-> "complete", arg |-> activity_id,
                      ret |-> r.ret, len |-> Len(activities2),
                      done |-> CountCompleted(activities2, 1)]
    /\ UNCHANGED <<activities, deleted, nadd>>

Delete2(activity_id) ==
    /\ LET r == DeleteActivity(activities2, file, activity_id)
       IN /\ activities2' = r.acts
          /\ file' = r.file
          /\ last' = [who |-> 2, op |-> "delete", arg |-> activity_id,
                      ret |-> r.ret, len |-> Len(activities2),
                      done |-> CountCompleted(activities2, 1)]
          /\ deleted' = IF Len(r.acts) < Len(activities2)
                        THEN deleted \cup {activity_id} ELSE deleted
    /\ UNCHANGED <<activities, nadd>>

\* Number of add_activity calls of the two stores together.
MaxSharedAdds == 2

NextTwo ==
    \/ \E d \in Descriptions, c \in Categories \cup {Omitted}, t \in Times :
          nadd < MaxSharedAdds /\ Add(d, c, t)
    \/ \E i \in Ids, t \in Times : Complete(i, t)
    \/ \E i \in Ids : Delete(i)
    \/ \E d \in Descriptions, c \in Categories \cup {Omitted}, t \in Times :
          nadd < MaxSharedAdds /\ Add2(d, c, t)
    \/ \E i \in Ids, t \in Times : Complete2(i, t)
    \/ \E i \in Ids : Delete2(i)

SpecTwo == Init /\ [][NextTwo]_vars

\* ------------------------------------------------------------ main (CLI)
\* The strings a user can type at "Enter choice: ": the six menu entries and
\* one that is none of them.
Choices == {"1", "2", "3", "4", "5", "6", "x"}

\* One run of main(): construct the store on the file, read the choice, run
\* the branch for it.  ret is the list of store methods the run called; only
\* "1", "2" and "5" have a branch (lines 143-159).
MainCli(f, choice, desc, cat, now) ==
    LET log == InitActivityLog(f)
    IN IF choice = "1"
       THEN LET r == AddActivity(log.acts, log.file, desc, cat, now)
            IN [acts |-> r.acts, file |-> r.file, ret |-> <<"add_activity">>]
       ELSE IF choice = "2"
       THEN [acts |-> log.acts, file |-> log.file, ret |-> <<"list_activities">>]
       ELSE IF choice = "5"
       THEN [acts |-> log.acts, file |-> log.file, ret |-> <<"get_statistics">>]
       ELSE [acts |-> log.acts, file |-> log.file, ret |-> <<>>]

Main(choice, desc, cat, now) ==
    /\ choice = "1" => nadd < MaxAdds
    /\ LET r == MainCli(file, choice, desc, cat, now)
       IN /\ activities' = r.acts
          /\ file' = r.file
          /\ last' = [who |-> 1, op |-> "main", arg |-> choice, ret |-> r.ret,
                      len |-> Len(LoadActivities(file)),
                      done |-> CountCompleted(LoadActivities(file), 1)]
    /\ nadd' = IF choice = "1" THEN nadd + 1 ELSE nadd
    /\ UNCHANGED <<activities2, deleted>>

\* Description and category are whatever line the user types.
NextCli ==
    \E choice \in Choices, d \in Descriptions, c \in Categories \cup {"general"},
       t \in Times : Main(choice, d, c, t)

SpecCli == Init /\ [][NextCli]_vars

\* ------------------------------------------------------- shared predicates
Indices(acts) == 1..Len(acts)

HasId(acts, activity_id) == \E i \in Indices(acts) : acts[i]["id"] = activity_id

\* The least index holding activity_id (stated on the set of indices).
FirstIndexOf(acts, activity_id) ==
    CHOOSE i \in Indices(acts) :
        /\ acts[i]["id"] = activity_id
        /\ \A j \in Indices(acts) : acts[j]["id"] = activity_id => i <= j

\* sub is acts with some elements left out, the order kept.
RECURSIVE IsSubsequence(_, _)
IsSubsequence(sub, acts) ==
    IF sub = <<>> THEN TRUE
    ELSE IF acts = <<>> THEN FALSE
    ELSE IF Head(sub) = Head(acts) THEN IsSubsequence(Tail(sub), Tail(acts))
    ELSE IsSubsequence(sub, Tail(acts))

\* The file holds the list: a store constructed now would load these records.
Persisted(acts, f) == f.kind = "json" /\ LoadActivities(f) = acts

\* ------------------------------------------------------------------ claims

\* C1: in every reachable state no two records of the store have the same id.
C1_UniqueIds ==
    \A i, j \in Indices(activities) :
        i # j => activities[i]["id"] # activities[j]["id"]

\* C2: once delete has removed a record with id i, no later add assigns id i.
C2_IdNeverReused ==
    [][last'.op = "add" => last'.ret["id"] \notin deleted]_vars

\* C3: delete(id) with an id some record has shrinks the store by exactly one
\* record, returns true and keeps every record with a different id.
C3_DeleteExisting ==
    [][(last'.op = "delete" /\ HasId(activities, last'.arg)) =>
          /\ Len(activities') = Len(activities) - 1
          /\ last'.ret = TRUE
          /\ \A i \in Indices(activities) :
                activities[i]["id"] # last'.arg =>
                    \E j \in Indices(activities') : activities'[j] = activities[i]
      ]_vars

\* C4: a new store constructed on the same file loads exactly the records of
\* the first store's list, with the same fields, in the same order.
C4_RoundTrip == LoadActivities(file) = activities

C4_Witness ==
    /\ file.kind = "json"
    /\ Len(activities) >= 2
    /\ deleted # {}
    /\ \E i \in Indices(activities) : IsCompleted(activities[i])
    /\ \E i \in Indices(activities) : ~IsCompleted(activities[i])

\* C5: list(category=c) returns exactly the records whose category is c, in
\* insertion order, for every string c (the empty one too); list() returns all.
C5_ListByCategory ==
    last.op = "list" =>
        last.ret = IF last.arg = None
                   THEN activities
                   ELSE SelectSeq(activities, LAMBDA a : a["category"] = last.arg)

\* C6: complete(id) with an id some record has returns true, sets completed
\* and completed_at on the first record with that id, changes no other record,
\* no other field, neither length nor order, and persists the list.
C6_CompleteExisting ==
    [][(last'.op = "complete" /\ HasId(activities, last'.arg)) =>
          LET k == FirstIndexOf(activities, last'.arg)
          IN /\ last'.ret = TRUE
             /\ Len(activities') = Len(activities)
             /\ activities'[k]["completed"] = TRUE
             /\ "completed_at" \in DOMAIN activities'[k]
             /\ activities'[k]["completed_at"] \in Times
             /\ \A key \in DOMAIN activities[k] \ {"completed", "completed_at"} :
                    activities'[k][key] = activities[k][key]
             /\ \A i \in Indices(activities) : i # k => activities'[i] = activities[i]
             /\ Persisted(activities', file')
      ]_vars

\* A completion of an id two records share, the second still pending.
C6_Witness ==
    /\ last.op = "complete"
    /\ last.ret = TRUE
    /\ \E i, j \in Indices(activities) :
          /\ i < j
          /\ activities[i]["id"] = last.arg
          /\ activities[j]["id"] = last.arg
          /\ IsCompleted(activities[i])
          /\ ~IsCompleted(activities[j])

\* C7: complete(id) and delete(id) with an id no record has return false and
\* leave the list and the file as they were.
C7_MissingId ==
    [][(last'.op \in {"complete", "delete"} /\ ~HasId(activities, last'.arg)) =>
          /\ last'.ret = FALSE
          /\ activities' = activities
          /\ file' = file
      ]_vars

C7_Witness ==
    /\ last.op = "delete"
    /\ last.ret = FALSE
    /\ Len(activities) >= 1
    /\ ~HasId(activities, last.arg)

\* C8: after N adds and no delete, the store holds N records and the k-th has
\* id k.
C8_SequentialIds ==
    deleted = {} =>
        /\ Len(activities) = nadd
        /\ \A k \in Indices(activities) : activities[k]["id"] = k

C8_Witness ==
    /\ deleted = {}
    /\ nadd = MaxAdds
    /\ last.op = "add"
    /\ \E i \in Indices(activities) : IsCompleted(activities[i])

\* C9: add appends one record with id = length before + 1, the description and
\* category given ("general" when left out), completed false and no
\* completed_at; the earlier records stay, the list is persisted and the
\* record is returned.
C9_AddAppends ==
    [][last'.op = "add" =>
          LET n == Len(activities)
              r == activities'[n + 1]
          IN /\ Len(activities') = n + 1
             /\ r["id"] = n + 1
             /\ r["description"] = last'.arg[1]
             /\ r["category"] = IF last'.arg[2] = Omitted THEN "general" ELSE last'.arg[2]
             /\ r["completed"] = FALSE
             /\ "completed_at" \notin DOMAIN r
             /\ "timestamp" \in DOMAIN r
             /\ SubSeq(activities', 1, n) = activities
             /\ Persisted(activities', file')
             /\ last'.ret = r
      ]_vars

\* An add with the category left out, after a deletion, onto a non-empty list.
C9_Witness ==
    /\ last.op = "add"
    /\ last.arg[2] = Omitted
    /\ deleted # {}
    /\ Len(activities) >= 2

\* C10: statistics() returns total = number of records, completed = number of
\* completed records, pending = total - completed, categories = the count of
\* records per category occurring in the store; all zero and {} when empty.
RECURSIVE SumOver(_, _)
SumOver(f, S) ==
    IF S = {} THEN 0
    ELSE LET c == CHOOSE x \in S : TRUE IN f[c] + SumOver(f, S \ {c})

C10_Statistics ==
    last.op = "stats" =>
        LET s == last.ret
            done == {i \in Indices(activities) : activities[i]["completed"] = TRUE}
            cats == {activities[i]["category"] : i \in Indices(activities)}
        IN /\ s.total = Len(activities)
           /\ s.completed = Cardinality(done)
           /\ s.pending = s.total - s.completed
           /\ s.completed + s.pending = s.total
           /\ DOMAIN s.categories = cats
           /\ \A c \in cats :
                 s.categories[c] =
                     Cardinality({i \in Indices(activities) : activities[i]["category"] = c})
           /\ SumOver(s.categories, cats) = s.total
           /\ (activities = <<>> =>
                 s = [total |-> 0, completed |-> 0, pending |-> 0, categories |-> <<>>])

C10_Witness ==
    /\ last.op = "stats"
    /\ last.ret.completed >= 1
    /\ last.ret.pending >= 1
    /\ \E c \in DOMAIN last.ret.categories : last.ret.categories[c] >= 2
    /\ Cardinality(DOMAIN last.ret.categories) >= 2

\* C11: constructing a store on a file that is missing or holds no valid JSON
\* gives an empty list, raises nothing, and leaves the file as it was.
C11_LoadMissingOrCorrupt ==
    [][(last'.op = "load" /\ file.kind \in {"missing", "garbage"}) =>
          /\ activities' = <<>>
          /\ last'.ret = None
          /\ file' = file
      ]_vars

\* A store that held records is reopened after its file was removed.
C11_Witness ==
    /\ last.op = "load"
    /\ last.len >= 1
    /\ file.kind = "missing"
    /\ activities = <<>>

\* C12: delete(id) removes every record with that id, keeps the others with
\* their values and in their order, and returns true iff the list got shorter.
C12_DeleteRemovesAll ==
    [][last'.op = "delete" =>
          /\ ~HasId(activities', last'.arg)
          /\ IsSubsequence(activities', activities)
          /\ Len(activities') =
                Cardinality({i \in Indices(activities) : activities[i]["id"] # last'.arg})
          /\ (last'.ret = TRUE) <=> (Len(activities') < Len(activities))
      ]_vars

\* A delete that removed two records sharing the id.
C12_Witness ==
    /\ last.op = "delete"
    /\ last.ret = TRUE
    /\ last.len - Len(activities) = 2

\* C13: every record has completed_at iff its completed flag is true.
C13_CompletedAtIffCompleted ==
    \A i \in Indices(activities) :
        ("completed_at" \in DOMAIN activities[i]) <=> (activities[i]["completed"] = TRUE)

C13_Witness ==
    /\ \E i \in Indices(activities) :
          activities[i]["completed"] = TRUE /\ "completed_at" \in DOMAIN activities[i]
    /\ \E i \in Indices(activities) :
          activities[i]["completed"] = FALSE /\ "completed_at" \notin DOMAIN activities[i]

\* C14: a completed record stays completed while it is in the store, whatever
\* operation follows; complete again on its id returns true and changes
\* neither any completed flag nor the statistics.
C14_CompletionMonotonic ==
    [][/\ last'.op = "delete" => IsSubsequence(activities', activities)
       /\ last'.op # "delete" =>
             \A i \in Indices(activities) :
                 IsCompleted(activities[i]) =>
                     /\ i \in Indices(activities')
                     /\ activities'[i]["id"] = activities[i]["id"]
                     /\ IsCompleted(activities'[i])
       /\ (/\ last'.op = "complete"
           /\ \E i \in Indices(activities) :
                 activities[i]["id"] = last'.arg /\ IsCompleted(activities[i])) =>
             /\ last'.ret = TRUE
             /\ Len(activities') = Len(activities)
             /\ \A i \in Indices(activities) :
                   IsCompleted(activities'[i]) <=> IsCompleted(activities[i])
             /\ GetStatistics(activities') = GetStatistics(activities)
      ]_vars

\* A complete that found its record completed already: the count of completed
\* records is what it was as the call began.
C14_Witness ==
    /\ last.op = "complete"
    /\ last.ret = TRUE
    /\ last.done >= 1
    /\ last.done = CountCompleted(activities, 1)
    /\ Len(activities) >= 2

\* C15: list (with or without a filter) and statistics change neither the
\* list nor the file.
C15_ReadsChangeNothing ==
    [][last'.op \in {"list", "stats"} => activities' = activities /\ file' = file]_vars

\* A filtered list that returned some records and left some out.
C15_Witness ==
    /\ last.op = "list"
    /\ last.arg = "general"
    /\ Len(last.ret) >= 1
    /\ Len(last.ret) < Len(activities)
    /\ Persisted(activities, file)

\* C16: with two stores on one file, each save overwrites the file with the
\* saving store's own list, whatever the file held: after a store's add the
\* file holds that store's earlier records and the new one, nothing else.  So
\* a state is reached (C16_Witness) where a record added through one store is
\* gone from the file after the other store's next mutating call.
Own(w) == IF w = 1 THEN activities ELSE activities2

C16_SaveOverwritesWithOwnList ==
    [][file' # file =>
          /\ last'.who \in {1, 2}
          /\ file'.kind = "json"
          /\ LoadActivities(file') = (IF last'.who = 1 THEN activities' ELSE activities2')
          /\ last'.op = "add" =>
                LoadActivities(file') = Append(Own(last'.who), last'.ret)
      ]_vars

\* Store 1 added a record and saved it; store 2's add then wrote a file
\* without it.
C16_Witness ==
    /\ last.who = 2
    /\ last.op = "add"
    /\ activities # <<>>
    /\ \E i \in Indices(activities) :
          \A j \in Indices(LoadActivities(file)) :
              LoadActivities(file)[j] # activities[i]
    /\ LoadActivities(file) = activities2

\* C17: every menu entry works: choice 1 calls add, 2 list, 3 complete,
\* 4 delete, 5 statistics (6 exits, calling nothing).
MenuEntry(choice) ==
    CASE choice = "1" -> <<"add_activity">>
      [] choice = "2" -> <<"list_activities">>
      [] choice = "3" -> <<"complete_activity">>
      [] choice = "4" -> <<"delete_activity">>
      [] choice = "5" -> <<"get_statistics">>
      [] OTHER -> <<>>

C17_MenuChoicesWork ==
    last.op = "main" => last.ret = MenuEntry(last.arg)

====
